---- MODULE Spec2Model ----
(***************************************************************************)
(* Model of the Gomoku move-suggestion service: the GomokuEngine class     *)
(* (src/gomoku_engine.py) and the /api/best-move handler that drives the   *)
(* single shared engine (src/app.py).                                      *)
(*                                                                         *)
(* A board is the request's list of rows: a sequence of sequences of       *)
(* 0 (empty), 1 (black), 2 (white).  The code indexes from 0, so cell      *)
(* (r, c) of the code is board[r + 1][c + 1] here.  Strings are sequences  *)
(* of character codes, so that sorted() and join() are what they are in    *)
(* the code.  Scores are counted in thousandths, so that the weights, the   *)
(* 0.9 / 0.8 / 0.7 factors and the random tie-breaker are all integers.    *)
(***************************************************************************)
EXTENDS Integers, Sequences, FiniteSets

(***************************************************************************)
(* Bounds of the model.                                                    *)
(***************************************************************************)
\* Longest run of stones a request board is painted with.
MaxRunLen == 4
\* Period of the stream of random draws handed to the tie-breaker.
RandomPeriod == 2

(***************************************************************************)
(* GomokuEngine.__init__                                                   *)
(***************************************************************************)
empty == 0
black == 1
white == 2
DefaultBoardSize == 15

\* The four axes, in the order every loop of the engine walks them.
directions == << <<1, 0>>, <<0, 1>>, <<1, 1>>, <<1, -1>> >>

\* One thousandth is the unit of every score.
ScoreUnit == 1000

threat_patterns ==
  [ five         |-> 100000 * ScoreUnit,
    open_four    |-> 10000 * ScoreUnit,
    closed_four  |-> 5000 * ScoreUnit,
    open_three   |-> 1000 * ScoreUnit,
    closed_three |-> 500 * ScoreUnit,
    open_two     |-> 100 * ScoreUnit,
    closed_two   |-> 50 * ScoreUnit ]

(***************************************************************************)
(* numpy arrays                                                            *)
(***************************************************************************)
Rows(board) == Len(board)
Cols(board) == IF Len(board) = 0 THEN 0 ELSE Len(board[1])

\* board[r, c] for an index inside the array.
Cell(board, r, c) == board[r + 1][c + 1]

\* board[r, c] raises IndexError outside the array (the engine never hands
\* numpy a negative index: every access is guarded by 0 <= r, 0 <= c).
InArray(board, r, c) == r >= 0 /\ r < Rows(board) /\ c >= 0 /\ c < Cols(board)

\* np.zeros((n, n))
Zeros(n) == [r \in 1..n |-> [c \in 1..n |-> empty]]

\* board[r, c] = v on a copy
SetCell(board, r, c, v) == [board EXCEPT ![r + 1][c + 1] = v]

\* np.where(board == v) / np.where(board > 0): the cells whose value is in
\* vals, in row-major order.
RowMajor(board) ==
  [k \in 1..(Rows(board) * Cols(board)) |->
     <<(k - 1) \div Cols(board), (k - 1) % Cols(board)>>]

Where(board, vals) ==
  SelectSeq(RowMajor(board), LAMBDA pos : Cell(board, pos[1], pos[2]) \in vals)

\* The positive values of an int8 cell.
Positive == 1..127

\* np.count_nonzero(board_array)
count_nonzero(board) == Len(Where(board, Positive))

(***************************************************************************)
(* Strings: sequences of character codes.                                  *)
(***************************************************************************)
ChComma == 44
ChZero == 48
ChB == 66
ChW == 87
ChUnderscore == 95

\* str(n) for n >= 0
RECURSIVE Decimal(_)
Decimal(n) ==
  IF n < 10 THEN << ChZero + n >>
  ELSE Decimal(n \div 10) \o << ChZero + (n % 10) >>

\* f"B{r},{c}" and f"W{r},{c}"
Token(letter, pos) == << letter >> \o Decimal(pos[1]) \o << ChComma >> \o Decimal(pos[2])

\* s < t on Python strings: code point by code point, a proper prefix first.
RECURSIVE StrLess(_, _)
StrLess(s, t) ==
  IF t = << >> THEN FALSE
  ELSE IF s = << >> THEN TRUE
  ELSE IF Head(s) # Head(t) THEN Head(s) < Head(t)
  ELSE StrLess(Tail(s), Tail(t))

\* sorted(positions)
RECURSIVE InsertSorted(_, _)
InsertSorted(s, sortedList) ==
  IF sortedList = << >> THEN << s >>
  ELSE IF StrLess(s, Head(sortedList)) THEN << s >> \o sortedList
  ELSE << Head(sortedList) >> \o InsertSorted(s, Tail(sortedList))

RECURSIVE Sorted(_)
Sorted(list) ==
  IF list = << >> THEN << >> ELSE InsertSorted(Head(list), Sorted(Tail(list)))

\* "_".join(list)
RECURSIVE Join(_)
Join(list) ==
  IF list = << >> THEN << >>
  ELSE IF Len(list) = 1 THEN Head(list)
  ELSE Head(list) \o << ChUnderscore >> \o Join(Tail(list))

\* GomokuEngine._board_to_string
_board_to_string(board) ==
  LET black_positions == Where(board, {black})
      white_positions == Where(board, {white})
      positions == [i \in 1..Len(black_positions) |-> Token(ChB, black_positions[i])]
                   \o [i \in 1..Len(white_positions) |-> Token(ChW, white_positions[i])]
  IN  Join(Sorted(positions))

(***************************************************************************)
(* GomokuEngine._initialize_opening_book: the dict, as a set of entries.   *)
(***************************************************************************)
BookBoardSize == 15
BookCenter == 7

BookAdjacent == { <<0, 1>>, <<1, 0>>, <<1, 1>>, <<1, -1>> }
BookTwoAway == { <<0, 2>>, <<2, 0>>, <<2, 2>>, <<2, -2>> }

BookPosition(d) ==
  SetCell(SetCell(Zeros(BookBoardSize), BookCenter, BookCenter, black),
          BookCenter + d[1], BookCenter + d[2], white)

_initialize_opening_book ==
  { [key |-> _board_to_string(Zeros(BookBoardSize)), move |-> <<BookCenter, BookCenter>>] }
  \cup { [key |-> _board_to_string(BookPosition(d)),
          move |-> <<BookCenter - d[1], BookCenter - d[2]>>] : d \in BookAdjacent }
  \cup { [key |-> _board_to_string(BookPosition(d)),
          move |-> <<BookCenter + (d[1] \div 2), BookCenter + (d[2] \div 2)>>] : d \in BookTwoAway }

opening_book == _initialize_opening_book

\* board_str in self.opening_book
InBook(board_str) == \E e \in opening_book : e.key = board_str

\* self.opening_book[board_str]
BookMove(board_str) == (CHOOSE e \in opening_book : e.key = board_str).move

(***************************************************************************)
(* Exceptions.  The engine reads self.board_size for every bounds test, so *)
(* every operator takes the size bs it reads beside the array.  With       *)
(* bs larger than the array an index passes the bounds test and numpy      *)
(* raises IndexError; a count or a score that raised is Raised.            *)
(***************************************************************************)
Raised == -1
OffBoard == -2

InRange(bs, r, c) == 0 <= r /\ r < bs /\ 0 <= c /\ c < bs

\* A read can raise only when the bounds test admits an index the array
\* does not have.
CanRaise(board, bs) == bs > Rows(board) \/ bs > Cols(board)

\* "0 <= r < bs and 0 <= c < bs and board[r, c] ...": the value read, OffBoard
\* when the bounds test fails, Raised when the read raises.
Probe(board, bs, r, c) ==
  IF ~InRange(bs, r, c) THEN OffBoard
  ELSE IF ~InArray(board, r, c) THEN Raised
  ELSE Cell(board, r, c)

(***************************************************************************)
(* GomokuEngine._check_line                                                *)
(***************************************************************************)
\* One while loop: the count when it stops.  board[r, c] is read before
\* "count < length" is tested.
RECURSIVE Walk(_, _, _, _, _, _, _, _, _)
Walk(board, bs, r, c, dr, dc, player, count, length) ==
  LET v == Probe(board, bs, r, c)
  IN  IF v = Raised THEN Raised
      ELSE IF v = player /\ count < length
           THEN Walk(board, bs, r + dr, c + dc, dr, dc, player, count + 1, length)
           ELSE count

\* The count after both loops.
line_count(board, bs, row, col, dr, dc, player, length) ==
  LET forward == Walk(board, bs, row, col, dr, dc, player, 0, length)
  IN  IF forward = Raised THEN Raised
      ELSE Walk(board, bs, row - dr, col - dc, -dr, -dc, player, forward, length)

_check_line(board, bs, row, col, dr, dc, player, length) ==
  line_count(board, bs, row, col, dr, dc, player, length) >= length

_check_line_raises(board, bs, row, col, dr, dc, player, length) ==
  line_count(board, bs, row, col, dr, dc, player, length) = Raised

(***************************************************************************)
(* GomokuEngine._check_open_line                                           *)
(***************************************************************************)
pos_open(board, bs, row, col, dr, dc, length) ==
  Probe(board, bs, row + length * dr, col + length * dc) = empty

neg_open(board, bs, row, col, dr, dc, length) ==
  Probe(board, bs, row - length * dr, col - length * dc) = empty

_check_open_line(board, bs, row, col, dr, dc, player, length) ==
  /\ _check_line(board, bs, row, col, dr, dc, player, length)
  /\ \/ pos_open(board, bs, row, col, dr, dc, length)
     \/ neg_open(board, bs, row, col, dr, dc, length)

_check_open_line_raises(board, bs, row, col, dr, dc, player, length) ==
  \/ _check_line_raises(board, bs, row, col, dr, dc, player, length)
  \/ /\ _check_line(board, bs, row, col, dr, dc, player, length)
     /\ \/ Probe(board, bs, row + length * dr, col + length * dc) = Raised
        \/ Probe(board, bs, row - length * dr, col - length * dc) = Raised

(***************************************************************************)
(* GomokuEngine._get_valid_moves                                           *)
(***************************************************************************)
Contains(list, x) == \E i \in 1..Len(list) : list[i] = x

\* "for dr in range(-2, 3): for dc in range(-2, 3)": the 25 cells around a
\* stone, in the order the loops visit them.
Around(stone) ==
  [k \in 1..25 |-> <<stone[1] + ((k - 1) \div 5) - 2, stone[2] + ((k - 1) % 5) - 2>>]

\* "for r, c in zip(rows, cols)" from stone i on.
RECURSIVE NearStones(_, _, _, _, _)
NearStones(board, bs, stones, i, valid_moves) ==
  IF i > Len(stones) THEN valid_moves
  ELSE NearStones(board, bs, stones, i + 1,
         valid_moves \o SelectSeq(Around(stones[i]), LAMBDA cell :
           Probe(board, bs, cell[1], cell[2]) = empty /\ ~Contains(valid_moves, cell)))

_get_valid_moves(board, bs) ==
  LET stones == Where(board, Positive)
  IN  IF Len(stones) = 0 THEN << <<bs \div 2, bs \div 2>> >>
      ELSE NearStones(board, bs, stones, 1, << >>)

_get_valid_moves_raises(board, bs) ==
  LET stones == Where(board, Positive)
  IN  CanRaise(board, bs) /\ \E i \in 1..Len(stones) : \E dr \in -2..2 : \E dc \in -2..2 :
        Probe(board, bs, stones[i][1] + dr, stones[i][2] + dc) = Raised

(***************************************************************************)
(* The "for dr, dc in directions: if self._check_line(test_board, row,     *)
(* col, dr, dc, colour, 5)" loop on a copy of the board with colour at     *)
(* move: "hit" on the first axis that holds a run of 5, "raise" if a read  *)
(* raised before that, "miss" otherwise.                                   *)
(***************************************************************************)
RECURSIVE FiveScan(_, _, _, _, _)
FiveScan(test_board, bs, move, colour, i) ==
  IF i > Len(directions) THEN "miss"
  ELSE LET n == line_count(test_board, bs, move[1], move[2],
                           directions[i][1], directions[i][2], colour, 5)
       IN  IF n = Raised THEN "raise"
           ELSE IF n >= 5 THEN "hit"
           ELSE FiveScan(test_board, bs, move, colour, i + 1)

FiveAt(board, bs, move, colour) ==
  IF ~InArray(board, move[1], move[2]) THEN "raise"
  ELSE FiveScan(SetCell(board, move[1], move[2], colour), bs, move, colour, 1)

(***************************************************************************)
(* GomokuEngine._check_immediate_threats                                   *)
(***************************************************************************)
NoMove == << -1, -1 >>

\* One "for move in valid_moves" loop: the first move that completes five
\* for colour.  kind is "move", "none" (the loop ends) or "raise".
RECURSIVE FirstFive(_, _, _, _, _)
FirstFive(board, bs, valid_moves, i, colour) ==
  IF i > Len(valid_moves) THEN [kind |-> "none", move |-> NoMove]
  ELSE LET found == FiveAt(board, bs, valid_moves[i], colour)
       IN  IF found = "hit" THEN [kind |-> "move", move |-> valid_moves[i]]
           ELSE IF found = "raise" THEN [kind |-> "raise", move |-> NoMove]
           ELSE FirstFive(board, bs, valid_moves, i + 1, colour)

\* Mutants: the block looked for before the win; the win alone.
_check_immediate_threats_block_first(board, bs, player) ==
  LET opponent == 3 - player
      valid_moves == _get_valid_moves(board, bs)
      block == FirstFive(board, bs, valid_moves, 1, opponent)
  IN  IF _get_valid_moves_raises(board, bs) THEN [kind |-> "raise", move |-> NoMove]
      ELSE IF block.kind # "none" THEN block
      ELSE FirstFive(board, bs, valid_moves, 1, player)

_check_immediate_threats_win_only(board, bs, player) ==
  LET valid_moves == _get_valid_moves(board, bs)
  IN  IF _get_valid_moves_raises(board, bs) THEN [kind |-> "raise", move |-> NoMove]
      ELSE FirstFive(board, bs, valid_moves, 1, player)

_check_immediate_threats(board, bs, player) ==
  LET opponent == 3 - player
      valid_moves == _get_valid_moves(board, bs)
      win == FirstFive(board, bs, valid_moves, 1, player)
  IN  IF _get_valid_moves_raises(board, bs) THEN [kind |-> "raise", move |-> NoMove]
      ELSE IF win.kind # "none" THEN win
      ELSE FirstFive(board, bs, valid_moves, 1, opponent)

(***************************************************************************)
(* GomokuEngine._evaluate_move                                             *)
(***************************************************************************)
\* x * 0.9, x * 0.8, x * 0.7 on the weights (all multiples of ten).
Times(x, tenths) == (x * tenths) \div 10

Sum4(f(_)) == f(1) + f(2) + f(3) + f(4)

Abs(x) == IF x < 0 THEN -x ELSE x
Max(x, y) == IF x >= y THEN x ELSE y

\* "if open line: score += open_w  elif line: score += closed_w" on one axis
OpenOrClosed(test_board, bs, move, i, colour, length, open_w, closed_w) ==
  IF _check_open_line(test_board, bs, move[1], move[2],
                      directions[i][1], directions[i][2], colour, length)
  THEN open_w
  ELSE IF _check_line(test_board, bs, move[1], move[2],
                      directions[i][1], directions[i][2], colour, length)
  THEN closed_w
  ELSE 0

centrality_score(bs, move) ==
  LET center == bs \div 2
      distance_to_center == Abs(move[1] - center) + Abs(move[2] - center)
  IN  Max(0, 10 - distance_to_center) * 10 * ScoreUnit

\* Some read of the scoring loops after the winning-move loop raises.
ScoringRaises(mine, theirs, bs, move, player, opponent) ==
  /\ CanRaise(mine, bs)
  /\ \E i \in 1..Len(directions) :
       \/ _check_line_raises(theirs, bs, move[1], move[2],
                             directions[i][1], directions[i][2], opponent, 5)
       \/ \E length \in {4, 3, 2} :
            _check_open_line_raises(mine, bs, move[1], move[2],
                                    directions[i][1], directions[i][2], player, length)
       \/ \E length \in {4, 3} :
            _check_open_line_raises(theirs, bs, move[1], move[2],
                                    directions[i][1], directions[i][2], opponent, length)

\* The function up to the centrality bonus.  returned: the winning-move loop
\* returned the 'five' weight, and no random number is drawn.
score_before_jitter(board, bs, move, player) ==
  LET opponent == 3 - player
      win == FiveAt(board, bs, move, player)
      mine == SetCell(board, move[1], move[2], player)
      theirs == SetCell(board, move[1], move[2], opponent)
      block_five == Sum4(LAMBDA i :
        IF _check_line(theirs, bs, move[1], move[2],
                       directions[i][1], directions[i][2], opponent, 5)
        THEN Times(threat_patterns.five, 9) ELSE 0)
      fours == Sum4(LAMBDA i : OpenOrClosed(mine, bs, move, i, player, 4,
                      threat_patterns.open_four, threat_patterns.closed_four))
      threes == Sum4(LAMBDA i : OpenOrClosed(mine, bs, move, i, player, 3,
                      threat_patterns.open_three, threat_patterns.closed_three))
      twos == Sum4(LAMBDA i : OpenOrClosed(mine, bs, move, i, player, 2,
                      threat_patterns.open_two, threat_patterns.closed_two))
      block_fours == Sum4(LAMBDA i : OpenOrClosed(theirs, bs, move, i, opponent, 4,
                      Times(threat_patterns.open_four, 8),
                      Times(threat_patterns.closed_four, 8)))
      block_threes == Sum4(LAMBDA i : OpenOrClosed(theirs, bs, move, i, opponent, 3,
                      Times(threat_patterns.open_three, 7), 0))
  IN  IF win = "raise" THEN [returned |-> TRUE, score |-> Raised]
      ELSE IF win = "hit" THEN [returned |-> TRUE, score |-> threat_patterns.five]
      ELSE IF ScoringRaises(mine, theirs, bs, move, player, opponent)
           THEN [returned |-> TRUE, score |-> Raised]
      ELSE [returned |-> FALSE,
            score |-> block_five + fours + threes + twos + block_fours + block_threes
                      + centrality_score(bs, move)]

\* Mutant: "* 100" for "* 0.1".
jitter_times_100(draw) == draw * ScoreUnit

\* np.random.random() is drawn in hundredths (0..99); "* 0.1" in score units.
jitter(draw) == (draw * ScoreUnit) \div 1000

\* Mutant: the winning move is not returned at once and gets the tie-breaker.
add_jitter_always(before, draw) == before.score + jitter(draw)

\* "score += np.random.random() * 0.1; return score"
add_jitter(before, draw) ==
  IF before.returned THEN before.score ELSE before.score + jitter(draw)

_evaluate_move(board, bs, move, player, draw) ==
  add_jitter(score_before_jitter(board, bs, move, player), draw)

(***************************************************************************)
(* np.random: the stream of draws of one call, periodic with period        *)
(* RandomPeriod, each draw one of RandomValues (hundredths of [0, 1)).     *)
(***************************************************************************)
RandomValues == {0, 37, 99}
RandomStreams == [1..RandomPeriod -> RandomValues]

\* The k-th draw (k = 0, 1, ...) of the stream.
Draw(rng, k) == rng[(k % Len(rng)) + 1]

(***************************************************************************)
(* GomokuEngine.get_best_move, stage by stage.  Every stage that reads     *)
(* self.board_size takes the value bs it reads.                            *)
(***************************************************************************)
\* A stage's outcome: kind "move" (return move), "raise" (an exception
\* leaves get_best_move) or "next" (fall through to the next stage).
Return(move, path) == [kind |-> "move", move |-> move, path |-> path]
Raise(path) == [kind |-> "raise", move |-> NoMove, path |-> path]
FallThrough == [kind |-> "next", move |-> NoMove, path |-> "none"]

\* Lines 111-123: the opening book, then the empty board.
opening_stage(board, bs) ==
  LET board_str == _board_to_string(board)
  IN  IF InBook(board_str) THEN Return(BookMove(board_str), "book")
      ELSE IF count_nonzero(board) = 0 THEN Return(<<bs \div 2, bs \div 2>>, "empty")
      ELSE FallThrough

\* Lines 125-128.  A non-empty tuple is true, so every move found returns.
immediate_stage(board, bs, player) ==
  LET immediate_move == _check_immediate_threats(board, bs, player)
  IN  IF immediate_move.kind = "raise" THEN Raise("immediate")
      ELSE IF immediate_move.kind = "move" THEN Return(immediate_move.move, "immediate")
      ELSE FallThrough

\* move_scores, in the order of valid_moves: draw k goes to the k-th call
\* of _evaluate_move that reaches the random tie-breaker.
RECURSIVE JitterAll(_, _, _, _)
JitterAll(before, rng, i, k) ==
  IF i > Len(before) THEN << >>
  ELSE << add_jitter(before[i], Draw(rng, k)) >>
       \o JitterAll(before, rng, i + 1, IF before[i].returned THEN k ELSE k + 1)

\* max(move_scores.items(), key=lambda x: x[1]): the first item of the
\* largest score.
ArgMax(scores) ==
  CHOOSE i \in 1..Len(scores) :
    /\ \A j \in 1..Len(scores) : scores[j] <= scores[i]
    /\ \A j \in 1..(i - 1) : scores[j] < scores[i]

\* Lines 137-150 on the scores before the tie-breaker.
best_of(valid_moves, before, rng) ==
  LET move_scores == JitterAll(before, rng, 1, 0)
  IN  IF \E i \in 1..Len(before) : before[i].score = Raised THEN Raise("argmax")
      ELSE Return(valid_moves[ArgMax(move_scores)], "argmax")

\* Lines 130-141 up to the tie-breaker: valid_moves and, in its order, what
\* _evaluate_move computes for each move before it draws.
RECURSIVE ScoreAll(_, _, _, _, _)
ScoreAll(board, bs, valid_moves, i, player) ==
  IF i > Len(valid_moves) THEN << >>
  ELSE << score_before_jitter(board, bs, valid_moves[i], player) >>
       \o ScoreAll(board, bs, valid_moves, i + 1, player)

candidates(board, bs, player) ==
  IF _get_valid_moves_raises(board, bs)
  THEN [raises |-> TRUE, valid_moves |-> << >>, before |-> << >>]
  ELSE LET valid_moves == _get_valid_moves(board, bs)
       IN  [raises |-> FALSE, valid_moves |-> valid_moves,
            before |-> IF Len(valid_moves) = 1 THEN << >>
                       ELSE ScoreAll(board, bs, valid_moves, 1, player)]

\* Lines 130-150 for one stream of draws.
scoring_stage(scored, rng) ==
  IF scored.raises THEN Raise("moves")
  ELSE IF Len(scored.valid_moves) = 1 THEN Return(scored.valid_moves[1], "single")
  ELSE IF Len(scored.valid_moves) = 0 THEN Raise("argmax")
  ELSE best_of(scored.valid_moves, scored.before, rng)

(***************************************************************************)
(* Request boards: an empty board painted with runs of stones.             *)
(***************************************************************************)
\* The cells of a run of len stones from origin along an axis.
RunCells(origin, axis, len) ==
  { <<origin[1] + k * directions[axis][1], origin[2] + k * directions[axis][2]>> :
      k \in 0..(len - 1) }

Painted(board, origin, axis, len, colour) ==
  LET cells == RunCells(origin, axis, len)
  IN  [r \in 1..Rows(board) |-> [c \in 1..Cols(board) |->
         IF <<r - 1, c - 1>> \in cells THEN colour ELSE board[r][c]]]

\* The runs of a length in lens that fit a board of side n (a single stone
\* is listed once, not once per axis).
Runs(n, lens) ==
  { run \in [origin : (0..(n - 1)) \X (0..(n - 1)), axis : 1..4, len : lens,
             colour : {black, white}] :
      /\ run.len = 1 => run.axis = 1
      /\ \A cell \in RunCells(run.origin, run.axis, run.len) : InRange(n, cell[1], cell[2]) }

Paint(board, run) == Painted(board, run.origin, run.axis, run.len, run.colour)

\* A run one stone short of a win.
WinLength == 5
FourLen == WinLength - 1

\* Boards of side n: nothing, one run of any length up to MaxRunLen, or
\* such a run in black and then a run of four painted over it (with the two
\* players of a request, the other colouring is the same case).
RunBoards(n) ==
  { Zeros(n) }
  \cup { Paint(Zeros(n), run) : run \in Runs(n, 1..MaxRunLen) }
  \cup { Paint(Paint(Zeros(n), first), second) :
           first \in { run \in Runs(n, 1..MaxRunLen) : run.colour = black },
           second \in Runs(n, {FourLen}) }

\* Opening positions on a board of side n > BookCenter: black on (7, 7)
\* alone, or with one white stone at most two cells away.
OpeningBoards(n) ==
  LET first == SetCell(Zeros(n), BookCenter, BookCenter, black)
  IN  { first }
      \cup { SetCell(first, BookCenter + dr, BookCenter + dc, white) :
               <<dr, dc>> \in { d \in (-2..2) \X (-2..2) :
                                  /\ d # <<0, 0>>
                                  /\ InRange(n, BookCenter + d[1], BookCenter + d[2]) } }

RunBoardSides == {5}
OpeningSides == {9, 15}
EmptySides == {5, 8, 15, 16}

\* The boards of the requests.
Boards(runSides, openingSides, emptySides) ==
  UNION { RunBoards(n) : n \in runSides }
  \cup UNION { OpeningBoards(n) : n \in openingSides }
  \cup { Zeros(n) : n \in emptySides }

\* The boards of concurrent requests: two sides, stones in the middle, on
\* the edge and in the corner.
ConcurrentBoards(small, large) ==
  { Painted(Zeros(small), <<2, 1>>, 2, 2, black),
    Painted(Painted(Zeros(small), <<0, 0>>, 1, 1, black), <<0, 1>>, 1, 1, white),
    Painted(Zeros(large), <<3, 2>>, 2, 3, white),
    Painted(Painted(Zeros(large), <<1, 1>>, 3, 2, black), <<5, 5>>, 1, 1, white) }

\* The boards _evaluate_move is applied to: two runs of four, the first one
\* black.
ScoreBoards(n) ==
  { Paint(Paint(Zeros(n), first), second) :
      first \in { run \in Runs(n, {FourLen}) : run.colour = black },
      second \in Runs(n, {FourLen}) }

\* The boards _check_open_line is applied to: a black run and a white stone.
LineBoards(n) ==
  { Paint(Paint(Zeros(n), first), second) :
      first \in { run \in Runs(n, 2..MaxRunLen) : run.colour = black },
      second \in { run \in Runs(n, {1}) : run.colour = white } }

\* The "player" field of a request: black, white, or a value the handler
\* rejects.
Players == {1, 2, 3}

(***************************************************************************)
(* The service: the module-level engine of src/app.py and the handler of   *)
(* POST /api/best-move, one step per stage.                                *)
(***************************************************************************)
Threads == {1, 2}

VARIABLES
  board_size,   \* engine._board_size
  pc,           \* pc[t]: where thread t is in the handler
  request,      \* request[t]: the payload thread t is handling
  response,     \* response[t]: what thread t answers
  probe         \* the last direct call of an engine method and its result

vars == << board_size, pc, request, response, probe >>

NoRequest == [board |-> << >>, player |-> 0]
NoResponse == [status |-> 0, move |-> NoMove, path |-> "none"]
NoProbe == [fn |-> "none", board |-> << >>, move |-> NoMove, player |-> 0,
            axis |-> 0, length |-> 0, returned |-> FALSE, result |-> 0]

\* jsonify({"move": [int(row), int(col)], ...}), the 400 and the 500 answers
Answer(outcome) ==
  IF outcome.kind = "move" THEN [status |-> 200, move |-> outcome.move, path |-> outcome.path]
  ELSE [status |-> 500, move |-> NoMove, path |-> outcome.path]

BadRequest == [status |-> 400, move |-> NoMove, path |-> "none"]

Init ==
  /\ board_size = DefaultBoardSize
  /\ pc = [t \in Threads |-> "idle"]
  /\ request = [t \in Threads |-> NoRequest]
  /\ response = [t \in Threads |-> NoResponse]
  /\ probe = NoProbe

\* Lines 34-55: a payload that passes the checks of the board.
Receive(t, boards) ==
  /\ pc[t] = "idle"
  /\ \E board \in boards, player \in Players :
       request' = [request EXCEPT ![t] = [board |-> board, player |-> player]]
  /\ pc' = [pc EXCEPT ![t] = "size"]
  /\ UNCHANGED << board_size, response, probe >>

\* Mutants: the size only ever grows; the size is set on the first request
\* only.
UpdateSize_if_larger(t) ==
  /\ pc[t] = "size"
  /\ board_size' = IF board_size < Len(request[t].board)
                   THEN Len(request[t].board) ELSE board_size
  /\ pc' = [pc EXCEPT ![t] = "player"]
  /\ UNCHANGED << request, response, probe >>

UpdateSize_once(t) ==
  /\ pc[t] = "size"
  /\ board_size' = IF board_size = DefaultBoardSize
                   THEN Len(request[t].board) ELSE board_size
  /\ pc' = [pc EXCEPT ![t] = "player"]
  /\ UNCHANGED << request, response, probe >>

\* Lines 57-59
UpdateSize(t) ==
  /\ pc[t] = "size"
  /\ board_size' = IF board_size # Len(request[t].board)
                   THEN Len(request[t].board) ELSE board_size
  /\ pc' = [pc EXCEPT ![t] = "player"]
  /\ UNCHANGED << request, response, probe >>

\* Lines 61-63
ValidatePlayer(t) ==
  /\ pc[t] = "player"
  /\ IF request[t].player \notin {1, 2}
     THEN /\ response' = [response EXCEPT ![t] = BadRequest]
          /\ pc' = [pc EXCEPT ![t] = "done"]
     ELSE /\ pc' = [pc EXCEPT ![t] = "opening"]
          /\ UNCHANGED response
  /\ UNCHANGED << board_size, request, probe >>

\* One stage of engine.get_best_move (line 66): answer, or go to the next.
Stage(t, outcome, next) ==
  IF outcome.kind = "next"
  THEN /\ pc' = [pc EXCEPT ![t] = next]
       /\ UNCHANGED response
  ELSE /\ pc' = [pc EXCEPT ![t] = "done"]
       /\ response' = [response EXCEPT ![t] = Answer(outcome)]

Opening(t) ==
  /\ pc[t] = "opening"
  /\ Stage(t, opening_stage(request[t].board, board_size), "immediate")
  /\ UNCHANGED << board_size, request, probe >>

Immediate(t) ==
  /\ pc[t] = "immediate"
  /\ Stage(t, immediate_stage(request[t].board, board_size, request[t].player), "scoring")
  /\ UNCHANGED << board_size, request, probe >>

Scoring(t) ==
  /\ pc[t] = "scoring"
  /\ \E scored \in {candidates(request[t].board, board_size, request[t].player)} :
       \E rng \in RandomStreams : Stage(t, scoring_stage(scored, rng), "done")
  /\ UNCHANGED << board_size, request, probe >>

\* The answer is sent and the thread takes the next request.
Done(t) ==
  /\ pc[t] = "done"
  /\ pc' = [pc EXCEPT ![t] = "idle"]
  /\ request' = [request EXCEPT ![t] = NoRequest]
  /\ response' = [response EXCEPT ![t] = NoResponse]
  /\ UNCHANGED << board_size, probe >>

\* app.run(..., threaded=False): one thread, one request at a time.
Next ==
  \/ Receive(1, Boards(RunBoardSides, OpeningSides, EmptySides))
  \/ UpdateSize(1)
  \/ ValidatePlayer(1)
  \/ Opening(1)
  \/ Immediate(1)
  \/ Scoring(1)
  \/ Done(1)

Spec == Init /\ [][Next]_vars

\* The same handler behind a threaded server: the steps of two requests
\* interleave on the one engine.
NextConcurrent ==
  \E t \in Threads :
    \/ Receive(t, ConcurrentBoards(5, 7))
    \/ UpdateSize(t)
    \/ ValidatePlayer(t)
    \/ Opening(t)
    \/ Immediate(t)
    \/ Scoring(t)
    \/ Done(t)

SpecConcurrent == Init /\ [][NextConcurrent]_vars

(***************************************************************************)
(* Direct calls of the engine's methods on GomokuEngine(board_size=n), n   *)
(* the side of the board.                                                  *)
(***************************************************************************)
AllCells(board) == (0..(Rows(board) - 1)) \X (0..(Cols(board) - 1))
EmptyCells(board) == { pos \in AllCells(board) : Cell(board, pos[1], pos[2]) = empty }
StoneCells(board, colour) == { pos \in AllCells(board) : Cell(board, pos[1], pos[2]) = colour }

Call(fn, board, move, player, axis, length) ==
  [fn |-> fn, board |-> board, move |-> move, player |-> player,
   axis |-> axis, length |-> length, returned |-> FALSE, result |-> 0]

InitCall ==
  /\ board_size = Rows(probe.board)
  /\ pc = [t \in Threads |-> "idle"]
  /\ request = [t \in Threads |-> NoRequest]
  /\ response = [t \in Threads |-> NoResponse]

\* engine._evaluate_move(board, move, player) on every empty cell
InitScore ==
  /\ \E board \in ScoreBoards(5) :
       \E move \in EmptyCells(board), player \in {black, white} :
         probe = Call("_evaluate_move", board, move, player, 0, 0)
  /\ InitCall

EvaluateMove ==
  /\ probe.fn = "_evaluate_move"
  /\ ~probe.returned
  /\ \E before \in { score_before_jitter(probe.board, board_size, probe.move, probe.player) } :
       \E draw \in RandomValues :
         probe' = [probe EXCEPT !.returned = TRUE, !.result = add_jitter(before, draw)]
  /\ UNCHANGED << board_size, pc, request, response >>

SpecScore == InitScore /\ [][EvaluateMove]_vars

\* engine._check_open_line(board, row, col, dr, dc, player, length) with the
\* player's stone at (row, col)
InitLine ==
  /\ \E board \in LineBoards(5) :
       \E origin \in StoneCells(board, black), axis \in 1..Len(directions),
          length \in 2..FourLen :
         probe = Call("_check_open_line", board, origin, black, axis, length)
  /\ InitCall

CheckOpenLine ==
  /\ probe.fn = "_check_open_line"
  /\ ~probe.returned
  /\ probe' = [probe EXCEPT
       !.returned = TRUE,
       !.result = IF _check_open_line(probe.board, board_size, probe.move[1], probe.move[2],
                                      directions[probe.axis][1], directions[probe.axis][2],
                                      probe.player, probe.length)
                  THEN 1 ELSE 0]
  /\ UNCHANGED << board_size, pc, request, response >>

SpecLine == InitLine /\ [][CheckOpenLine]_vars

(***************************************************************************)
(* The rules of the game, stated on the board alone.                       *)
(***************************************************************************)
Step(pos, axis, k) == <<pos[1] + k * directions[axis][1], pos[2] + k * directions[axis][2]>>

Holds(board, pos, colour) ==
  InArray(board, pos[1], pos[2]) /\ Cell(board, pos[1], pos[2]) = colour

\* A stone of colour on pos makes a run of at least WinLength through pos.
CompletesFive(board, pos, colour) ==
  \E axis \in 1..Len(directions), back \in 0..(WinLength - 1) :
    \A j \in 0..(WinLength - 1) :
      LET cell == Step(pos, axis, j - back)
      IN  cell = pos \/ Holds(board, cell, colour)

\* colour has four stones in a row with an empty cell right behind or right
\* ahead of them.
HasFourWithExtension(board, colour) ==
  \E start \in AllCells(board), axis \in 1..Len(directions) :
    /\ \A j \in 0..(FourLen - 1) : Holds(board, Step(start, axis, j), colour)
    /\ \/ Holds(board, Step(start, axis, FourLen), empty)
       \/ Holds(board, Step(start, axis, -1), empty)

StoneCount(board) == Cardinality(AllCells(board) \ EmptyCells(board))

\* Thread 1 has answered a request of a player the handler accepts.
Answered == pc[1] = "done" /\ request[1].player \in {black, white}

AnsweredEmptyCell ==
  /\ response[1].status = 200
  /\ Holds(request[1].board, response[1].move, empty)

(***************************************************************************)
(* C1: on every board with an empty cell and for either player,            *)
(* get_best_move returns an in-bounds cell that is empty on the board,     *)
(* whatever the return path.                                               *)
(***************************************************************************)
C1_ReturnsEmptyCell ==
  (Answered /\ EmptyCells(request[1].board) # {}) => AnsweredEmptyCell

(***************************************************************************)
(* C2: on a board of side N with no stone or exactly one stone,            *)
(* get_best_move returns the center (N \div 2, N \div 2).                  *)
(***************************************************************************)
C2_CenterOnNearEmpty ==
  (Answered /\ StoneCount(request[1].board) <= 1)
    => /\ response[1].status = 200
       /\ response[1].move = << Rows(request[1].board) \div 2, Rows(request[1].board) \div 2 >>

(***************************************************************************)
(* C3: when the player to move has four in a row with an empty extension   *)
(* cell, get_best_move returns an empty cell that completes five for the   *)
(* mover, whatever the opponent threatens.                                 *)
(***************************************************************************)
C3_WinFirst ==
  (Answered /\ HasFourWithExtension(request[1].board, request[1].player))
    => /\ AnsweredEmptyCell
       /\ CompletesFive(request[1].board, response[1].move, request[1].player)

\* The mover wins although the opponent, too, has four and an extension.
C3_Witness ==
  /\ Answered
  /\ HasFourWithExtension(request[1].board, request[1].player)
  /\ HasFourWithExtension(request[1].board, 3 - request[1].player)
  /\ AnsweredEmptyCell
  /\ CompletesFive(request[1].board, response[1].move, request[1].player)

(***************************************************************************)
(* C4: when the opponent has four in a row with an empty extension cell    *)
(* and no empty cell completes five for the mover, get_best_move returns   *)
(* an empty cell on which the opponent would complete five, and the        *)
(* scoring stage is not reached.                                           *)
(***************************************************************************)
MustBlock(board, player) ==
  /\ player \in {black, white}
  /\ HasFourWithExtension(board, 3 - player)
  /\ \A cell \in EmptyCells(board) : ~CompletesFive(board, cell, player)

C4_ForcedBlock ==
  MustBlock(request[1].board, request[1].player)
    => /\ pc[1] # "scoring"
       /\ pc[1] = "done"
            => /\ AnsweredEmptyCell
               /\ CompletesFive(request[1].board, response[1].move, 3 - request[1].player)
               /\ response[1].path = "immediate"

C4_Witness ==
  /\ pc[1] = "done"
  /\ MustBlock(request[1].board, request[1].player)
  /\ response[1].status = 200
  /\ CompletesFive(request[1].board, response[1].move, 3 - request[1].player)

(***************************************************************************)
(* C5: with requests handled one at a time, whenever get_best_move runs,   *)
(* engine.board_size is the number of rows of the board of the request in  *)
(* hand, whatever the earlier requests were.                               *)
(***************************************************************************)
InEngine(t) == pc[t] \in {"opening", "immediate", "scoring"}

C5_SizeOfCurrentRequest ==
  InEngine(1) => board_size = Rows(request[1].board)

\* The engine runs on a board whose side is not the one it was built with.
C5_Witness ==
  /\ pc[1] = "scoring"
  /\ Rows(request[1].board) # DefaultBoardSize
  /\ board_size = Rows(request[1].board)

(***************************************************************************)
(* C8: on a board whose side is not 15, get_best_move never returns by the *)
(* opening book.                                                           *)
(***************************************************************************)
C8_BookMissesOffSize ==
  (Answered /\ Rows(request[1].board) # BookBoardSize) => response[1].path # "book"

(***************************************************************************)
(* C6: with two requests of different sides handled concurrently, a        *)
(* thread can be inside get_best_move while engine.board_size is not the   *)
(* side of its board (C6_Race is reached).  What holds of every step: the  *)
(* size step of a thread leaves engine.board_size at the side of its own   *)
(* board, and while a thread is inside get_best_move the size turns away   *)
(* from the side of its board only by the size step of another thread.     *)
(***************************************************************************)
SizeStep(t) == pc[t] = "size" /\ pc'[t] = "player"

C6_RaceByInterleavedAssignment ==
  [][\A t \in Threads :
       /\ SizeStep(t) => board_size' = Rows(request[t].board)
       /\ (InEngine(t) /\ board_size = Rows(request[t].board)
             /\ board_size' # Rows(request[t].board))
            => \E u \in Threads \ {t} :
                 SizeStep(u) /\ board_size' = Rows(request[u].board)]_vars

\* A board of side N is being evaluated while engine.board_size # N.
C6_Race ==
  \E t \in Threads :
    /\ pc[t] \in {"immediate", "scoring"}
    /\ board_size # Rows(request[t].board)

(***************************************************************************)
(* C7 as claimed: _evaluate_move returns exactly the 'five' weight on a    *)
(* cell that completes five for the player, and strictly less on every     *)
(* cell that does not.                                                     *)
(***************************************************************************)
Evaluated == probe.fn = "_evaluate_move" /\ probe.returned

C7_FiveIsMaximum ==
  Evaluated
    => IF CompletesFive(probe.board, probe.move, probe.player)
       THEN probe.result = threat_patterns.five
       ELSE probe.result < threat_patterns.five

(***************************************************************************)
(* C7 as amended: _evaluate_move returns exactly the 'five' weight on a    *)
(* cell that completes five for the player, and strictly less on every     *)
(* cell that completes five for neither the player nor the opponent.       *)
(***************************************************************************)
C7_FiveAboveQuietCells ==
  Evaluated
    => /\ CompletesFive(probe.board, probe.move, probe.player)
            => probe.result = threat_patterns.five
       /\ (/\ ~CompletesFive(probe.board, probe.move, probe.player)
           /\ ~CompletesFive(probe.board, probe.move, 3 - probe.player))
            => probe.result < threat_patterns.five

\* A cell b that completes five for nobody is scored below 'five' on a
\* board where another cell a completes five for the player.
C7_Witness ==
  /\ Evaluated
  /\ ~CompletesFive(probe.board, probe.move, probe.player)
  /\ ~CompletesFive(probe.board, probe.move, 3 - probe.player)
  /\ \E a \in EmptyCells(probe.board) : CompletesFive(probe.board, a, probe.player)
  /\ probe.result > 0
  /\ probe.result < threat_patterns.five

(***************************************************************************)
(* C9: _check_open_line is true iff the run of the player's stones through *)
(* the origin has at least 'length' stones and one of the two cells right  *)
(* beyond the ends of that run is on the board and empty, wherever in the  *)
(* run the origin is.                                                      *)
(***************************************************************************)
\* The stones of the run ahead of pos (sign = 1) or behind it (sign = -1).
RunReach(board, pos, axis, colour, sign) ==
  CHOOSE k \in 0..Rows(board) :
    /\ \A j \in 1..k : Holds(board, Step(pos, axis, sign * j), colour)
    /\ ~Holds(board, Step(pos, axis, sign * (k + 1)), colour)

OpenRun(board, pos, axis, colour, length) ==
  LET ahead == RunReach(board, pos, axis, colour, 1)
      behind == RunReach(board, pos, axis, colour, -1)
  IN  /\ ahead + behind + 1 >= length
      /\ \/ Holds(board, Step(pos, axis, ahead + 1), empty)
         \/ Holds(board, Step(pos, axis, -(behind + 1)), empty)

C9_OpenAtRunEnds ==
  (probe.fn = "_check_open_line" /\ probe.returned)
    => (probe.result = 1
          <=> OpenRun(probe.board, probe.move, probe.axis, probe.player, probe.length))

(***************************************************************************)
(* C10: when get_best_move reaches the scoring stage with two or more      *)
(* candidates, the move it returns is a candidate whose score without the  *)
(* random tie-breaker is the largest, whatever the draws are.              *)
(***************************************************************************)
ByArgMax == Answered /\ response[1].status = 200 /\ response[1].path = "argmax"

\* What _evaluate_move returns when the draw is 0.
WithoutJitter(before) == add_jitter(before, 0)

C10_TieBreakAmongEquals ==
  ByArgMax
    => \A scored \in { candidates(request[1].board, Rows(request[1].board),
                                  request[1].player) } :
         /\ Len(scored.valid_moves) >= 2
         /\ \E i \in 1..Len(scored.valid_moves) :
              /\ scored.valid_moves[i] = response[1].move
              /\ \A j \in 1..Len(scored.valid_moves) :
                   WithoutJitter(scored.before[j]) <= WithoutJitter(scored.before[i])

\* The draws decide: the move returned is not the first of the candidates
\* that share the largest score.
C10_Witness ==
  /\ ByArgMax
  /\ \E scored \in { candidates(request[1].board, Rows(request[1].board),
                                request[1].player) } :
       \E i, j \in 1..Len(scored.valid_moves) :
         /\ i < j
         /\ scored.valid_moves[j] = response[1].move
         /\ WithoutJitter(scored.before[i]) = WithoutJitter(scored.before[j])
         /\ \A k \in 1..Len(scored.valid_moves) :
              WithoutJitter(scored.before[k]) <= WithoutJitter(scored.before[j])
====
